---- MODULE Spec2Model ----
(***************************************************************************)
(* RecordView (atom-ide-console/lib/ui/RecordView.js): one console record  *)
(* rendered inside a virtualized list.  The model covers the component's   *)
(* lifecycle (mount, prop updates, the debounced height report, teardown)  *)
(* and its pure rendering functions (content selection, nested values,     *)
(* icon selection).                                                        *)
(***************************************************************************)
EXTENDS Integers, Sequences, FiniteSets, TLC

VARIABLES
    env,            \* what the parent and the layout may supply: [props, heights]
    phase,          \* "init" | "mounted" | "unmounted"
    props,          \* this.props
    prevProps,      \* the props before the last handler ran (componentDidUpdate's argument)
    wrapper,        \* this._wrapper: "null" | "div"
    height,         \* the wrapper's offsetHeight
    now,            \* Date.now(), in ms
    timeout,        \* debounce: the time the pending timer is due, or NoTimer
    timestamp,      \* debounce: the time of the last call of the debounced function
    expansionState, \* the fields of the object props.expansionStateId refers to
    nextObj,        \* identity of the next object a `{}` allocates
    rendered,       \* the element tree of the last render()
    lastOp,         \* the handler that ran last
    notified,       \* the onHeightChange calls the last handler made
    didRender,      \* whether the last handler ran render()
    burst,          \* history: signals of the current burst: 0, 1, or 2 for two or more
    fires,          \* history: onHeightChange calls the debounced path made for this burst
    cancelledAt,    \* history: the due time of the timer pending at teardown, or NoTimer
    signalRef       \* history: while a timer is pending or has just run, the record
                    \* prop (its reference) at the last signal; 0 otherwise

vars == <<env, phase, props, prevProps, wrapper, height, now, timeout, timestamp,
          expansionState, nextObj, rendered, lastOp, notified, didRender, burst,
          fires, cancelledAt, signalRef>>

----------------------------------------------------------------------------
(* Bounds of the model *)

MaxObjects == 2
MaxTime == 14
MaxLate == 1

(* debounce(this.measureAndNotifyHeight, 10) *)
Wait == 10

----------------------------------------------------------------------------
(* Values *)

Undefined == "undefined"
NoTimer == 0 - 1

\* JavaScript truthiness of a string-or-undefined value
Truthy(s) == s # Undefined /\ s # ""

\* The values a field of the expansion-state object can hold: the key is
\* missing, it holds a falsy value (0, null, false, ""), or it holds an object.
AbsentV == [k |-> "absent", id |-> 0]
FalsyV == [k |-> "falsy", id |-> 0]
Obj(n) == [k |-> "object", id |-> n]
\* props.expansionStateId itself, and an object the parent stored earlier
RootObj == Obj(1)
ParentObj == Obj(2)
FirstFresh == 2 + 1

SlotTruthy(v) == v.k = "object"

ChildKey(index) == "child" \o ToString(index)
ChildKeys == {ChildKey(i) : i \in 0..(MaxObjects - 1)}
ExpansionKeys == ChildKeys \cup {"expanded"}

----------------------------------------------------------------------------
(* Records (types.js Record, as RecordView reads it) *)

Kinds == {"request", "response", "message"}
Levels == {Undefined, "info", "success", "warning", "error", "log"}
Texts == {Undefined, "", "hello"}
Formats == {Undefined, "ansi"}
SourceIds == {"known", "gone"}

Entries == [type : {Undefined, "number"}, reference : {0, 1},
            value : {"v"}, description : {"d"}]
RECURSIVE SeqsUpTo(_, _)
SeqsUpTo(S, n) ==
    IF n = 0 THEN {<<>>}
    ELSE LET shorter == SeqsUpTo(S, n - 1)
         IN shorter \cup {Append(s, e) : s \in {t \in shorter : Len(t) = n - 1}, e \in S}

NoData == [present |-> FALSE, type |-> Undefined, description |-> Undefined, objects |-> <<>>]
SingleData == {[present |-> TRUE, type |-> t, description |-> "d", objects |-> <<>>] :
                 t \in {"text", "object"}}
ObjectsData == {[present |-> TRUE, type |-> "objects", description |-> Undefined, objects |-> os] :
                  os \in SeqsUpTo(Entries, MaxObjects)}
Datas == {NoData} \cup SingleData \cup ObjectsData

MkRecord(ref, kind, level, text, format, sourceId, data) ==
    [ref |-> ref, kind |-> kind, level |-> level, text |-> text, format |-> format,
     sourceId |-> sourceId, data |-> data]

----------------------------------------------------------------------------
(* The accessors the parent supplies *)

\* getExecutor(id) / getProvider(id): null for a source that is gone
getExecutor(id) == IF id = "known" THEN "executor" ELSE "null"
getProvider(id) == IF id = "known" THEN "provider" ELSE "null"

----------------------------------------------------------------------------
(* Rendering *)

getComponent(type) ==
    IF type = "text" THEN "TextRenderer" ELSE "SimpleValueComponent"

getIconName_LevelFirst(record) ==
    IF record.level = "info" THEN "info"
    ELSE IF record.level = "success" THEN "check"
    ELSE IF record.level = "warning" THEN "alert"
    ELSE IF record.level = "error" THEN "stop"
    ELSE IF record.kind = "request" THEN "chevron-right"
    ELSE IF record.kind = "response" THEN "arrow-small-left"
    ELSE Undefined

getIconName(record) ==
    IF record.kind = "request" THEN "chevron-right"
    ELSE IF record.kind = "response" THEN "arrow-small-left"
    ELSE IF record.level = "info" THEN "info"
    ELSE IF record.level = "success" THEN "check"
    ELSE IF record.level = "warning" THEN "alert"
    ELSE IF record.level = "error" THEN "stop"
    ELSE Undefined

getHighlightClassName(level) ==
    IF level = "info" THEN "highlight-info"
    ELSE IF level = "success" THEN "highlight-success"
    ELSE IF level = "warning" THEN "highlight-warning"
    ELSE IF level = "error" THEN "highlight-error"
    ELSE "highlight"

NoSlot == AbsentV

\* <SimpleValueComponent expression={null} evaluationResult={{type, value}} />
SimpleChild(object) ==
    [component |-> "SimpleValueComponent",
     type |-> IF object.type # Undefined THEN object.type ELSE "text",
     value |-> object.value,
     description |-> Undefined,
     objectId |-> 0,
     fetchChildren |-> "null",
     simpleValueComponent |-> Undefined,
     expansionStateId |-> NoSlot]

\* <LazyNestedValueComponent evaluationResult fetchChildren simpleValueComponent
\*    shouldCacheChildren expansionStateId />
LazyChild(type, description, objectId, getProperties, simple, slot) ==
    [component |-> "LazyNestedValueComponent",
     type |-> type,
     value |-> Undefined,
     description |-> description,
     objectId |-> objectId,
     fetchChildren |-> getProperties,
     simpleValueComponent |-> simple,
     expansionStateId |-> slot]

\* if (!expansionStateId[key]) expansionStateId[key] = {};
\* st = [exp, next]: the object's fields and the next fresh identity
EnsureSlot_Always(st, key) ==
    [exp |-> [st.exp EXCEPT ![key] = Obj(st.next)], next |-> st.next + 1]

EnsureSlot(st, key) ==
    IF ~SlotTruthy(st.exp[key])
    THEN [exp |-> [st.exp EXCEPT ![key] = Obj(st.next)], next |-> st.next + 1]
    ELSE st

ObjectChild_AllLazy(object, getProperties, slot) ==
    LazyChild(IF Truthy(object.type) THEN object.type ELSE "",
              object.description, object.reference, getProperties,
              getComponent(object.type), slot)

ObjectChild(object, getProperties, slot) ==
    IF object.reference = 0
    THEN SimpleChild(object)
    ELSE LazyChild(IF Truthy(object.type) THEN object.type ELSE "",
                   object.description, object.reference, getProperties,
                   getComponent(object.type), slot)

\* the for loop over record.data.objects.entries(), from `index` on
RECURSIVE RenderObjects(_, _, _, _, _)
RenderObjects(objects, index, getProperties, st, children) ==
    IF index >= Len(objects)
    THEN [children |-> children, exp |-> st.exp, next |-> st.next]
    ELSE LET object == objects[index + 1]
             expansionStateKey == ChildKey(index)
             st2 == EnsureSlot(st, expansionStateKey)
             child == ObjectChild(object, getProperties, st2.exp[expansionStateKey])
         IN RenderObjects(objects, index + 1, getProperties, st2, Append(children, child))

Element(tag, parsed, text, lookups, children) ==
    [tag |-> tag, parsed |-> parsed, text |-> text, lookups |-> lookups,
     children |-> children]

\* Returns [el, exp, next]: the element and the expansion-state fields after it.
renderNestedValueComponent(provider, lookups, record, st) ==
    LET getProperties == IF provider = "null" THEN "null" ELSE provider \o ".getProperties"
        type == IF ~record.data.present THEN Undefined ELSE record.data.type
    IN IF type = "objects"
       THEN LET r == RenderObjects(record.data.objects, 0, getProperties, st, <<>>)
            IN [el |-> Element("span.console-multiple-objects", FALSE, Undefined,
                               lookups, r.children),
                exp |-> r.exp, next |-> r.next]
       ELSE [el |-> Element("LazyNestedValueComponent", FALSE, Undefined, lookups,
                            <<LazyChild(type, record.data.description, 0, getProperties,
                                        getComponent(type), RootObj)>>),
             exp |-> st.exp, next |-> st.next]

\* the plain-text branch: text || ' ', then <Ansi> or <pre>{parseText(text)}</pre>
renderText_NoAnsi(record) ==
    Element("pre", TRUE, IF Truthy(record.text) THEN record.text ELSE " ", <<>>, <<>>)

renderText(record) ==
    LET text == IF Truthy(record.text) THEN record.text ELSE " "
    IN IF record.format = "ansi"
       THEN Element("Ansi", TRUE, text, <<>>, <<>>)
       ELSE Element("pre", TRUE, text, <<>>, <<>>)

renderContent_DataFirst(record, st) ==
    IF record.kind = "request"
    THEN [el |-> Element("pre", FALSE, IF Truthy(record.text) THEN record.text ELSE " ",
                         <<>>, <<>>),
          exp |-> st.exp, next |-> st.next]
    ELSE IF record.data.present
    THEN renderNestedValueComponent(getProvider(record.sourceId),
                                    <<<<"getProvider", record.sourceId>>>>, record, st)
    ELSE IF record.kind = "response"
    THEN renderNestedValueComponent(getExecutor(record.sourceId),
                                    <<<<"getExecutor", record.sourceId>>>>, record, st)
    ELSE [el |-> renderText(record), exp |-> st.exp, next |-> st.next]

renderContent(record, st) ==
    IF record.kind = "request"
    THEN [el |-> Element("pre", FALSE, IF Truthy(record.text) THEN record.text ELSE " ",
                         <<>>, <<>>),
          exp |-> st.exp, next |-> st.next]
    ELSE IF record.kind = "response"
    THEN renderNestedValueComponent(getExecutor(record.sourceId),
                                    <<<<"getExecutor", record.sourceId>>>>, record, st)
    ELSE IF record.data.present
    THEN renderNestedValueComponent(getProvider(record.sourceId),
                                    <<<<"getProvider", record.sourceId>>>>, record, st)
    ELSE [el |-> renderText(record), exp |-> st.exp, next |-> st.next]

\* render(): the icon, the source label and the content
render(p, st) ==
    LET iconName == getIconName(p.record)
        c == renderContent(p.record, st)
    IN [tree |-> [icon |-> IF Truthy(iconName) THEN "icon icon-" \o iconName ELSE "null",
                  sourceLabel |-> IF p.showSourceLabel
                                  THEN getHighlightClassName(p.record.level)
                                  ELSE "null",
                  content |-> c.el],
        exp |-> c.exp, next |-> c.next]

----------------------------------------------------------------------------
(* Props and the lifecycle's pure parts *)

MkProps(record, showSourceLabel, onHeightChange) ==
    [record |-> record, showSourceLabel |-> showSourceLabel,
     onHeightChange |-> onHeightChange]

\* shallowequal: every prop compared with ===; a record is compared by
\* reference.  getExecutor, getProvider and expansionStateId are the same
\* objects throughout.
shallowEqual(a, b) ==
    /\ a.record.ref = b.record.ref
    /\ a.showSourceLabel = b.showSourceLabel
    /\ a.onHeightChange = b.onHeightChange

shouldComponentUpdate_Always(p, nextProps) == TRUE

shouldComponentUpdate(p, nextProps) == ~shallowEqual(p, nextProps)

measureAndNotifyHeight_Stale(w, p, h) ==
    IF w = "null"
    THEN <<>>
    ELSE <<[handler |-> p.onHeightChange, record |-> prevProps.record, height |-> h]>>

\* The onHeightChange calls one invocation makes: none, or one.
measureAndNotifyHeight(w, p, h) ==
    IF w = "null"
    THEN <<>>
    ELSE <<[handler |-> p.onHeightChange, record |-> p.record, height |-> h]>>

componentDidMount(w, p, h) == measureAndNotifyHeight(w, p, h)

SameContent(a, b) == [a EXCEPT !.ref = 0] = [b EXCEPT !.ref = 0]

componentDidUpdate_Deep(w, p, prev, h) ==
    IF ~SameContent(p.record, prev.record)
    THEN measureAndNotifyHeight(w, p, h)
    ELSE <<>>

componentDidUpdate(w, p, prev, h) ==
    IF p.record.ref # prev.record.ref
    THEN measureAndNotifyHeight(w, p, h)
    ELSE <<>>

onMeasurementsChanged_Direct == "direct"

\* What render() hands to MeasuredComponent's onMeasurementsChanged.
onMeasurementsChanged == "debounced"

----------------------------------------------------------------------------
(* nuclide-commons/debounce: db = [timeout, timestamp] *)

\* debounced(): remember the time, start the timer unless one is pending
DebouncedCall(db, t) ==
    [timestamp |-> t,
     timeout |-> IF db.timeout = NoTimer THEN t + Wait ELSE db.timeout]

\* later(): re-arm when the last call is less than Wait ago, else invoke
LaterInvokes(db, t) == ~(t - db.timestamp < Wait /\ t - db.timestamp >= 0)

Later(db, t) ==
    [timestamp |-> db.timestamp,
     timeout |-> IF LaterInvokes(db, t) THEN NoTimer ELSE t + (Wait - (t - db.timestamp))]

\* debounced.dispose(): clear the pending timer
Dispose(db) == [timestamp |-> db.timestamp, timeout |-> NoTimer]

componentWillUnmount_NoDispose(db) == db

\* componentWillUnmount(): this._debouncedMeasureAndNotifyHeight.dispose()
componentWillUnmount(db) == Dispose(db)

Min(a, b) == IF a < b THEN a ELSE b

----------------------------------------------------------------------------
(* The records and props of the two specifications *)

LogRecord(ref) ==
    MkRecord(ref, "message", "info", "hello", Undefined, "known", NoData)
RequestRecord(ref) ==
    MkRecord(ref, "request", Undefined, "1 + 1", Undefined, "known", NoData)
\* Two distinct record objects with equal contents, and a third that differs.
LifeRecords == {LogRecord(1), LogRecord(2), RequestRecord(3)}
LifeProps == {MkProps(r, s, "h1") : r \in LifeRecords, s \in BOOLEAN}

\* Every kind with every level, and every kind with every text, format,
\* source and data.
RenderRecords ==
    {MkRecord(1, k, l, "hello", Undefined, "known", NoData) : k \in Kinds, l \in Levels}
    \cup
    UNION {{MkRecord(1, k, "log", t, f, s, d) : k \in Kinds, t \in Texts, f \in Formats} :
             s \in SourceIds, d \in Datas}

FreshExpansion == [key \in ExpansionKeys |-> AbsentV]
RenderExpansions ==
    {e \in [ExpansionKeys -> {AbsentV, FalsyV, ParentObj}] : e["expanded"] = ParentObj}

----------------------------------------------------------------------------
(* The state machine *)

Common ==
    /\ phase = "init"
    /\ prevProps = props
    /\ wrapper = "null"
    /\ height = 0
    /\ now = 0
    /\ timeout = NoTimer
    /\ timestamp = 0
    /\ nextObj = FirstFresh
    /\ rendered = "none"
    /\ lastOp = "constructor"
    /\ notified = <<>>
    /\ didRender = FALSE
    /\ burst = 0
    /\ fires = 0
    /\ cancelledAt = NoTimer
    /\ signalRef = 0

\* The component as constructed, for the lifecycle
Init ==
    /\ env = [props |-> LifeProps, heights |-> {20, 40}]
    /\ props \in LifeProps
    /\ expansionState = FreshExpansion
    /\ Common

\* The component as constructed, for the rendering functions
InitRender ==
    /\ \E r \in RenderRecords :
         /\ props = MkProps(r, FALSE, "h1")
         /\ env = [props |-> {MkProps(r, s, "h1") : s \in BOOLEAN}, heights |-> {20}]
    /\ expansionState \in RenderExpansions
    /\ Common

\* First render, the ref callback with the element, componentDidMount.
Mount ==
    /\ phase = "init"
    /\ LET r == render(props, [exp |-> expansionState, next |-> nextObj])
       IN /\ rendered' = r.tree
          /\ expansionState' = r.exp
          /\ nextObj' = r.next
    /\ wrapper' = "div"
    /\ height' \in env.heights
    /\ notified' = componentDidMount(wrapper', props, height')
    /\ phase' = "mounted"
    /\ lastOp' = "mount"
    /\ didRender' = TRUE
    /\ prevProps' = props
    /\ UNCHANGED <<env, props, now, timeout, timestamp, burst, fires, cancelledAt,
                   signalRef>>

\* The parent renders the list item with nextProps.
SetProps(nextProps) ==
    /\ phase = "mounted"
    /\ props' = nextProps
    /\ prevProps' = props
    /\ lastOp' = "setProps"
    /\ IF shouldComponentUpdate(props, nextProps)
       THEN /\ LET r == render(nextProps, [exp |-> expansionState, next |-> nextObj])
               IN /\ rendered' = r.tree
                  /\ expansionState' = r.exp
                  /\ nextObj' = r.next
            /\ height' \in env.heights
            /\ notified' = componentDidUpdate(wrapper, nextProps, props, height')
            /\ didRender' = TRUE
       ELSE /\ notified' = <<>>
            /\ didRender' = FALSE
            /\ UNCHANGED <<rendered, expansionState, nextObj, height>>
    /\ signalRef' = IF timeout # NoTimer THEN signalRef ELSE 0
    /\ UNCHANGED <<env, phase, wrapper, now, timeout, timestamp, burst, fires, cancelledAt>>

\* MeasuredComponent reports a layout change of the rendered content.
MeasurementsChanged ==
    /\ phase = "mounted"
    /\ height' \in env.heights
    /\ lastOp' = "signal"
    /\ signalRef' = IF onMeasurementsChanged = "debounced" THEN props.record.ref ELSE 0
    /\ didRender' = FALSE
    /\ prevProps' = props
    /\ IF onMeasurementsChanged = "debounced"
       THEN LET db == DebouncedCall([timeout |-> timeout, timestamp |-> timestamp], now)
            IN /\ timeout' = db.timeout
               /\ timestamp' = db.timestamp
               /\ notified' = <<>>
               /\ burst' = IF timeout = NoTimer THEN 1 ELSE Min(burst + 1, 2)
               /\ fires' = IF timeout = NoTimer THEN 0 ELSE fires
       ELSE /\ notified' = measureAndNotifyHeight(wrapper, props, height')
            /\ UNCHANGED <<timeout, timestamp, burst, fires>>
    /\ UNCHANGED <<env, phase, props, wrapper, now, expansionState, nextObj, rendered,
                   cancelledAt>>

\* The debounce timer goes off: later().
TimerFire ==
    /\ timeout # NoTimer
    /\ now >= timeout
    /\ LET db == [timeout |-> timeout, timestamp |-> timestamp]
       IN /\ timeout' = Later(db, now).timeout
          /\ notified' = IF LaterInvokes(db, now)
                         THEN measureAndNotifyHeight(wrapper, props, height)
                         ELSE <<>>
    /\ fires' = fires + Len(notified')
    /\ lastOp' = "timer"
    /\ didRender' = FALSE
    /\ prevProps' = props
    /\ UNCHANGED <<env, phase, props, wrapper, height, now, timestamp, expansionState,
                   nextObj, rendered, burst, cancelledAt, signalRef>>

\* A millisecond passes; a due timer runs at most MaxLate late.  (Construction,
\* the first render and componentDidMount are one synchronous commit.)
Tick ==
    /\ phase # "init"
    /\ now < MaxTime
    /\ timeout = NoTimer \/ now < timeout + MaxLate
    /\ now' = now + 1
    /\ lastOp' = "tick"
    /\ notified' = <<>>
    /\ didRender' = FALSE
    /\ prevProps' = props
    /\ signalRef' = IF timeout # NoTimer THEN signalRef ELSE 0
    /\ UNCHANGED <<env, phase, props, wrapper, height, timeout, timestamp, expansionState,
                   nextObj, rendered, burst, fires, cancelledAt>>

\* componentWillUnmount, then the ref callback with null.
Unmount ==
    /\ phase = "mounted"
    /\ LET db == componentWillUnmount([timeout |-> timeout, timestamp |-> timestamp])
       IN /\ timeout' = db.timeout
          /\ timestamp' = db.timestamp
    /\ cancelledAt' = timeout
    /\ wrapper' = "null"
    /\ phase' = "unmounted"
    /\ lastOp' = "unmount"
    /\ notified' = <<>>
    /\ didRender' = FALSE
    /\ prevProps' = props
    /\ signalRef' = 0
    /\ UNCHANGED <<env, props, height, now, expansionState, nextObj, rendered, burst, fires>>

Next ==
    \/ Mount
    \/ \E nextProps \in env.props : SetProps(nextProps)
    \/ MeasurementsChanged
    \/ TimerFire
    \/ Tick
    \/ Unmount

Spec == Init /\ [][Next]_vars

NextRender ==
    \/ Mount
    \/ \E nextProps \in env.props : SetProps(nextProps)

SpecRender == InitRender /\ [][NextRender]_vars

----------------------------------------------------------------------------
(* Height reporting *)

Report(p, h) == <<[handler |-> p.onHeightChange, record |-> p.record, height |-> h]>>

\* C1: once the component is torn down, no handler calls onHeightChange and
\* no deferred report is left pending, whatever preceded the teardown.
C1_NoReportAfterTeardown ==
    phase = "unmounted" => notified = <<>> /\ timeout = NoTimer

\* A teardown inside the 10ms window, and time has passed beyond the moment
\* the cancelled timer was due.
C1_Witness ==
    /\ phase = "unmounted"
    /\ cancelledAt # NoTimer
    /\ now > cancelledAt + MaxLate

\* C2: a signal never reports by itself, it leaves a timer pending; the
\* debounced path reports only when Wait ms have passed since the last signal,
\* and once the timer is idle again the burst has been reported exactly once.
C2_BurstCoalesced ==
    /\ lastOp = "signal" => notified = <<>> /\ timeout # NoTimer
    /\ lastOp = "timer" /\ notified # <<>> => now - timestamp >= Wait /\ timeout = NoTimer
    /\ lastOp = "timer" /\ now - timestamp < Wait => notified = <<>> /\ timeout # NoTimer
    /\ fires <= 1
    /\ phase = "mounted" /\ burst > 0 => (timeout = NoTimer <=> fires = 1)

\* The timer has just reported a burst of two or more signals.
C2_Witness ==
    /\ lastOp = "timer"
    /\ notified # <<>>
    /\ burst = 2
    /\ fires = 1

\* C3: the mount reports the height under the record; an update reports it
\* exactly when the record prop is another reference than before.
C3_MeasureOnMountAndNewRecord ==
    /\ lastOp = "mount" => notified = Report(props, height)
    /\ lastOp = "setProps" /\ props.record.ref # prevProps.record.ref
         => notified = Report(props, height)
    /\ lastOp = "setProps" /\ props.record.ref = prevProps.record.ref
         => notified = <<>>

\* An update to another record object with the same contents was reported.
C3_Witness ==
    /\ lastOp = "setProps"
    /\ props.record.ref # prevProps.record.ref
    /\ SameContent(props.record, prevProps.record)
    /\ notified = Report(props, height)

\* C4: props equal to the current ones, prop by prop, cause no render and no
\* height report.
C4_EqualPropsSkip ==
    lastOp = "setProps"
    /\ props.record.ref = prevProps.record.ref
    /\ props.showSourceLabel = prevProps.showSourceLabel
    /\ props.onHeightChange = prevProps.onHeightChange
    => ~didRender /\ notified = <<>>

\* Equal props were supplied while a deferred report was pending.
C4_Witness ==
    /\ lastOp = "setProps"
    /\ props = prevProps
    /\ ~didRender
    /\ timeout # NoTimer

\* C10: every onHeightChange call is made with the wrapper attached and passes
\* the record that is the record prop at the time of the call.
C10_ReportsCurrentRecord ==
    notified # <<>> =>
        /\ wrapper = "div"
        /\ Len(notified) = 1
        /\ notified[1].record = props.record
        /\ notified[1].handler = props.onHeightChange

\* A report deferred under one record ran after the prop became another.
C10_Witness ==
    /\ lastOp = "timer"
    /\ notified # <<>>
    /\ signalRef # 0
    /\ signalRef # props.record.ref
    /\ notified[1].record.ref = props.record.ref

----------------------------------------------------------------------------
(* Rendering *)

Content == rendered.content
PlainText(record) == IF record.text \in {Undefined, ""} THEN " " ELSE record.text
NestedTags == {"span.console-multiple-objects", "LazyNestedValueComponent"}

\* C5 as stated: a record of format "ansi" is rendered by the ANSI renderer,
\* whatever its kind and data.
C5_AnsiWhateverKind ==
    phase = "mounted" /\ props.record.format = "ansi" => Content.tag = "Ansi"

\* C5, amended: a record of format "ansi" that is neither a request nor a
\* response and has no data is rendered by the ANSI renderer, never by <pre>.
C5_AnsiPlainTextOnly ==
    phase = "mounted"
    /\ props.record.format = "ansi"
    /\ props.record.kind \notin {"request", "response"}
    /\ ~props.record.data.present
    => Content.tag = "Ansi" /\ Content.tag # "pre"

C5_Witness ==
    /\ phase = "mounted"
    /\ props.record.format = "ansi"
    /\ props.record.kind = "message"
    /\ ~props.record.data.present
    /\ props.record.text = Undefined
    /\ Content.tag = "Ansi"

\* C6: request, then response, then data, then plain text, in this order.
C6_ContentPrecedence ==
    phase = "mounted" =>
        LET r == props.record
        IN IF r.kind = "request"
           THEN /\ Content.tag = "pre"
                /\ ~Content.parsed
                /\ Content.text = PlainText(r)
                /\ Content.lookups = <<>>
           ELSE IF r.kind = "response"
           THEN /\ Content.tag \in NestedTags
                /\ Content.lookups = <<<<"getExecutor", r.sourceId>>>>
           ELSE IF r.data.present
           THEN /\ Content.tag \in NestedTags
                /\ Content.lookups = <<<<"getProvider", r.sourceId>>>>
           ELSE /\ Content.lookups = <<>>
                /\ Content.text = PlainText(r)
                /\ Content.parsed
                /\ Content.tag = IF r.format = "ansi" THEN "Ansi" ELSE "pre"

\* A response that carries data and the ansi format goes to the executor.
C6_Witness ==
    /\ phase = "mounted"
    /\ props.record.kind = "response"
    /\ props.record.data.present
    /\ props.record.format = "ansi"
    /\ Content.lookups = <<<<"getExecutor", props.record.sourceId>>>>

RendersObjects ==
    /\ phase = "mounted"
    /\ props.record.kind # "request"
    /\ props.record.data.present
    /\ props.record.data.type = "objects"

C7_Children ==
    RendersObjects =>
        LET objects == props.record.data.objects
            children == Content.children
        IN /\ Len(children) = Len(objects)
           /\ \A i \in 1..Len(objects) :
                LET key == "child" \o ToString(i - 1)
                IN IF objects[i].reference = 0
                   THEN /\ children[i].component = "SimpleValueComponent"
                        /\ children[i].value = objects[i].value
                        /\ children[i].type = IF objects[i].type = Undefined
                                              THEN "text" ELSE objects[i].type
                   ELSE /\ children[i].component = "LazyNestedValueComponent"
                        /\ children[i].expansionStateId = expansionState[key]
                        /\ children[i].expansionStateId.k = "object"
           /\ \A i, j \in 1..Len(objects) :
                i # j => "child" \o ToString(i - 1) # "child" \o ToString(j - 1)

C7_SameSlotOnRerender ==
    RendersObjects /\ RendersObjects' =>
        \A i \in 1..Len(Content.children) :
            Content'.children[i].expansionStateId = Content.children[i].expansionStateId

\* C7: N entries give N children in order, simple exactly for reference 0,
\* lazy otherwise with the slot stored under "child"+index, which stays the
\* same object on every later render.
C7_ObjectsRendering == []C7_Children /\ [][C7_SameSlotOnRerender]_vars

\* Two entries, one simple and one lazy, rendered a second time.
C7_Witness ==
    /\ RendersObjects
    /\ lastOp = "setProps"
    /\ didRender
    /\ Len(Content.children) = 2
    /\ Content.children[1].component = "SimpleValueComponent"
    /\ Content.children[2].component = "LazyNestedValueComponent"
    /\ Content.children[2].expansionStateId = expansionState["child1"]

RenderedKeys ==
    IF RendersObjects' THEN {ChildKey(i) : i \in 0..(Len(props'.record.data.objects) - 1)}
    ELSE {}

\* C8 as stated: an entry that exists, whatever its value, is never replaced.
C8_NoEntryReplaced ==
    [][\A key \in ExpansionKeys :
         expansionState[key] # AbsentV => expansionState'[key] = expansionState[key]]_vars

\* C8, amended: an entry holding an object is never replaced or deleted; the
\* only write stores a new empty object under a rendered "child"+index key
\* that was missing or held a falsy value.
C8_OnlyInitialisesSlots ==
    [][\A key \in ExpansionKeys :
         /\ expansionState[key].k = "object" => expansionState'[key] = expansionState[key]
         /\ expansionState'[key] # expansionState[key] =>
              /\ key \in RenderedKeys
              /\ expansionState[key].k # "object"
              /\ expansionState'[key].k = "object"
              /\ expansionState'[key].id >= nextObj
              /\ expansionState'[key].id < nextObj']_vars

\* One slot was initialised next to one the parent had filled.
C8_Witness ==
    /\ RendersObjects
    /\ Len(props.record.data.objects) = 2
    /\ expansionState["child0"] = ParentObj
    /\ expansionState["child1"].id >= FirstFresh
    /\ expansionState["expanded"] = ParentObj

\* C9: the kind decides the icon for requests and responses, the level for
\* every other record; no level or an unlisted one gives no icon.
C9_IconSelection ==
    phase = "mounted" =>
        LET r == props.record
        IN rendered.icon =
             IF r.kind = "request" THEN "icon icon-chevron-right"
             ELSE IF r.kind = "response" THEN "icon icon-arrow-small-left"
             ELSE IF r.level = "info" THEN "icon icon-info"
             ELSE IF r.level = "success" THEN "icon icon-check"
             ELSE IF r.level = "warning" THEN "icon icon-alert"
             ELSE IF r.level = "error" THEN "icon icon-stop"
             ELSE "null"

\* A request of level error shows the request glyph.
C9_Witness ==
    /\ phase = "mounted"
    /\ props.record.kind = "request"
    /\ props.record.level = "error"
    /\ rendered.icon = "icon icon-chevron-right"

====
